---------------------------- MODULE Spec2Model ----------------------------
(***************************************************************************)
(* Real-time system monitor (iced application over sysinfo).               *)
(*                                                                         *)
(* The repository holds two revisions of the application:                  *)
(*   "modular"    src/src/system_monitor.rs + models.rs + utils.rs         *)
(*                (logging interval, Save-To-File flag, LogToFile timer)   *)
(*   "standalone" src/src/main.rs                                          *)
(*                (visibility flags, logging from inside Tick)             *)
(* The variable revision says which one is running; every handler of both  *)
(* is an action below.                                                     *)
(*                                                                         *)
(* Numbers: byte counts and counters are naturals; an f32 CPU percentage   *)
(* is a whole number of percent; an f64 percentage computed by the sampler *)
(* is an F64 value (hundredths of a percent, or NaN / infinity).           *)
(***************************************************************************)
EXTENDS Integers, Sequences, FiniteSets, TLC

\* ------------------------------------------------------------------ bounds
\* provider readings are Reading(0) .. Reading(MaxLevel)
MaxLevel == 1
\* timer messages in flight at once
MaxQueue == 1
\* lines the log file can hold
MaxLog == 2
\* instants Utc::now() can return, in quarters of a second; the instants of
\* one run fall within the same second
MaxNow == 1
\* Ticks of the start-up scenario that are followed
MaxTicks == 3

\* --------------------------------------------------------------- constants
\* the period substituted when the interval text does not parse
DefaultLogSecs == 3
\* the display tick period in seconds
TickSecs == 1
\* the timestamp format keeps whole seconds: quarters of a second dropped
QuartersPerSecond == 4

VARIABLES
    revision,          \* "modular" | "standalone"
    os,                \* what the operating system reported when last asked
    system,            \* sysinfo::System     (cache, refreshed on demand)
    disks,             \* sysinfo::Disks      (cache)
    networks,          \* sysinfo::Networks   (cache)
    metrics,           \* the metric fields of SystemMonitor (the snapshot)
    is_monitoring,
    save_to_file,
    interval_in_secs,  \* sequence of one-character strings
    show,              \* standalone: show_cpu .. show_process
    system_log,        \* system_log.json: sequence of lines
    queue,             \* timer messages produced and not yet handled
    active,            \* the subscription the runtime holds
    panicked,          \* the process died of a panic
    last,              \* the message update handled last: "Tick" or
                       \* "LogToFile", "input" once the user acted after it
    sleeps,            \* thread::sleep calls the process has made
    held,              \* history, in the runs that keep it: Some(the
                       \* snapshot held when monitoring was switched off),
                       \* None once a Tick has sampled
    scenario,          \* history, in the runs that keep it: the Ticks
                       \* handled and the samples taken while the run is
                       \* "ToggleMonitoring, then Ticks" and nothing else
    armed              \* history, in the runs that keep it: "once" when
                       \* is_monitoring, save_to_file and a non-empty
                       \* interval text have held together, else "never"

vars == <<revision, os, system, disks, networks, metrics, is_monitoring,
          save_to_file, interval_in_secs, show, system_log, queue, active,
          panicked, last, sleeps, held, scenario, armed>>

\* ------------------------------------------------------------ Option, F64
None == <<>>
Some(x) == <<x>>

\* Option<String>::unwrap_or_default()
unwrap_or_default(o) == IF o = None THEN "" ELSE o[1]

\* Option<usize>::unwrap_or(d)
unwrap_or(o, d) == IF o = None THEN d ELSE o[1]

Num(n) == [k |-> "num", v |-> n]
NaN == [k |-> "nan", v |-> 0]
Inf(sign) == [k |-> "inf", v |-> sign]

\* (a as f64 / b as f64) * 100.0, in hundredths of a percent
Percent(a, b) ==
    IF b = 0
    THEN IF a = 0 THEN NaN ELSE IF a > 0 THEN Inf(1) ELSE Inf(-1)
    ELSE Num((a * 10000) \div b)

\* x >= 0.01 on an f64 (false for NaN)
AtLeastThreshold(x) ==
    \/ x.k = "inf" /\ x.v > 0
    \/ x.k = "num" /\ x.v >= 1

\* ------------------------------------------------------- provider readings
Levels == 0 .. MaxLevel

\* in the order the provider enumerates them; kernel threads report no
\* memory of their own
ProcessTable ==
    << [pid |-> 1, name |-> "init",     cpu_usage |-> 0,  memory |-> 1],
       [pid |-> 2, name |-> "kthreadd", cpu_usage |-> 1,  memory |-> 0],
       [pid |-> 3, name |-> "kworker",  cpu_usage |-> 0,  memory |-> 0],
       [pid |-> 4, name |-> "app",      cpu_usage |-> 10, memory |-> 4000],
       [pid |-> 5, name |-> "db",       cpu_usage |-> 5,  memory |-> 4000],
       [pid |-> 6, name |-> "cache",    cpu_usage |-> 20, memory |-> 8000] >>

\* What the operating system reports at level k.  Level 0 is the degenerate
\* host (no memory total, empty disks, nothing known about the cores).
Reading(k) ==
    [ global_cpu_usage |-> 25 * k,
      cpus |-> << [name |-> "cpu0", cpu_usage |-> 25 * k],
                  [name |-> "cpu1", cpu_usage |-> 0] >>,
      physical_core_count |-> IF k = 0 THEN None ELSE Some(2),
      total_memory |-> IF k = 0 THEN 0 ELSE 20000,
      used_memory |-> 4000 * k,
      total_swap |-> 1000,
      used_swap |-> 100 * k,
      processes |-> SubSeq(ProcessTable, 1,
                           IF k + 4 < Len(ProcessTable) THEN k + 4
                           ELSE Len(ProcessTable)),
      disks |-> << [name |-> "sda", kind |-> "SSD", mount_point |-> "/",
                    total_space |-> IF k = 0 THEN 0 ELSE 100,
                    available_space |-> IF k = 0 THEN 0 ELSE 100 - 10 * k],
                   [name |-> "sdb", kind |-> "HDD", mount_point |-> "/mnt",
                    total_space |-> 0, available_space |-> 0] >>,
      networks |-> << [interface |-> "eth0", total_transmitted |-> 7 * k,
                       total_received |-> 9 * k],
                      [interface |-> "lo", total_transmitted |-> 1,
                       total_received |-> 1] >>,
      name |-> Some("Linux"),
      kernel_version |-> Some("6.1"),
      os_version |-> IF k = 0 THEN None ELSE Some("12"),
      host_name |-> IF k = 0 THEN None
                    ELSE IF k = 1 THEN Some("host") ELSE Some("renamed") ]

Readings == { Reading(k) : k \in Levels }


\* ------------------------------------------------------------------ sysinfo
\* System::refresh_all(): CPU, memory, swap and the process table
refresh_all(r) ==
    [ global_cpu_usage |-> r.global_cpu_usage,
      cpus |-> r.cpus,
      total_memory |-> r.total_memory,
      used_memory |-> r.used_memory,
      total_swap |-> r.total_swap,
      used_swap |-> r.used_swap,
      processes |-> r.processes ]

\* System::refresh_cpu_all()
refresh_cpu_all(sys, r) ==
    [sys EXCEPT !.global_cpu_usage = r.global_cpu_usage, !.cpus = r.cpus]

\* System::refresh_memory(): memory and swap
refresh_memory(sys, r) ==
    [sys EXCEPT !.total_memory = r.total_memory, !.used_memory = r.used_memory,
                !.total_swap = r.total_swap, !.used_swap = r.used_swap]

\* ---------------------------------------------------------------- sampling
RECURSIVE Sum(_)
Sum(s) == IF s = <<>> THEN 0 ELSE Head(s) + Sum(Tail(s))

Map(s, F(_)) == [i \in 1 .. Len(s) |-> F(s[i])]

\* the u64 of the byte counts, narrowed to WordBits bits: every reading of
\* Readings fits in it
WordBits == 16
Word == 2 ^ WordBits

\* `acc + x` and `a - b` on u64 as a release build computes them
wrapping_add(a, b) == (a + b) % Word

wrapping_sub(a, b) == (a - b) % Word

RECURSIVE fold_add(_, _)
fold_add(acc, s) ==
    IF s = <<>> THEN acc ELSE fold_add(wrapping_add(acc, Head(s)), Tail(s))

\* the running sums of a fold, unwrapped
RECURSIVE partial_sums(_, _)
partial_sums(acc, s) ==
    IF s = <<>> THEN {}
    ELSE { acc + Head(s) }
             \cup partial_sums(wrapping_add(acc, Head(s)), Tail(s))

\* utils.rs calculate_disk_usage; the same two folds are written out in
\* main.rs (new and Tick).  The arithmetic is unchecked u64: this is the value
\* of a build without overflow checks
calculate_disk_usage(d) ==
    LET Total(x) == x.total_space
        Used(x) == wrapping_sub(x.total_space, x.available_space)
    IN  << fold_add(0, Map(d, Used)), fold_add(0, Map(d, Total)) >>

\* the same two folds in a build with overflow checks: true when one of the
\* subtractions or additions panics ("attempt to subtract with overflow",
\* "attempt to add with overflow")
disk_usage_overflows(d) ==
    LET Total(x) == x.total_space
        Used(x) == wrapping_sub(x.total_space, x.available_space)
    IN  \/ \E i \in 1 .. Len(d) : d[i].available_space > d[i].total_space
        \/ \E n \in partial_sums(0, Map(d, Total)) : n >= Word
        \/ \E n \in partial_sums(0, Map(d, Used)) : n >= Word

\* the networks folds
network_sent_of(n) ==
    LET Tx(x) == x.total_transmitted IN Sum(Map(n, Tx))

network_received_of(n) ==
    LET Rx(x) == x.total_received IN Sum(Map(n, Rx))

\* disks_info as new() builds it: the guard is on the aggregate total_disk
disks_info_new(d, total_disk) ==
    LET Info(x) ==
            [ name |-> x.name, kind |-> x.kind, mount |-> x.mount_point,
              total_disk |-> x.total_space, free_disk |-> x.available_space,
              used_disk_percent |->
                  IF total_disk > 0
                  THEN Percent(x.total_space - x.available_space, x.total_space)
                  ELSE Num(0) ]
    IN  Map(d, Info)

\* disks_info as Tick builds it: no guard
disks_info_tick(d) ==
    LET Info(x) ==
            [ name |-> x.name, kind |-> x.kind, mount |-> x.mount_point,
              total_disk |-> x.total_space, free_disk |-> x.available_space,
              used_disk_percent |->
                  Percent(x.total_space - x.available_space, x.total_space) ]
    IN  Map(d, Info)

processors_info_of(sys) ==
    LET Pair(c) == << c.name, c.cpu_usage >> IN Map(sys.cpus, Pair)

system_base_info_of(r) ==
    [ system_name |-> unwrap_or_default(r.name),
      kernal_version |-> unwrap_or_default(r.kernel_version),
      os_version |-> unwrap_or_default(r.os_version),
      host_name |-> unwrap_or_default(r.host_name) ]

\* an f32 percentage widened to f64
FromF32(c) == Num(c * 100)

\* the process list of system_monitor.rs new(): CPU gated by the warm-up
\* delta, entries below 0.01 % of memory dropped
processes_new(sys, cpu_time_diff) ==
    LET Entry(p) ==
            [ id |-> p.pid, name |-> p.name,
              cpu_usage_percent |->
                  IF cpu_time_diff > 0 THEN FromF32(p.cpu_usage) ELSE Num(0),
              memory_usage_percent |-> Percent(p.memory, sys.total_memory) ]
        Keep(e) == AtLeastThreshold(e.memory_usage_percent)
    IN  SelectSeq(Map(sys.processes, Entry), Keep)

\* the process list of main.rs new(): CPU rescaled by the warm-up delta, no
\* filter
main_processes_new(sys, cpu_time_diff) ==
    LET Entry(p) ==
            [ id |-> p.pid, name |-> p.name,
              cpu_usage_percent |->
                  IF cpu_time_diff > 0
                  THEN Percent(p.cpu_usage, cpu_time_diff)
                  ELSE Num(0),
              memory_usage_percent |-> Percent(p.memory, sys.total_memory) ]
    IN  Map(sys.processes, Entry)

\* the process list of a Tick with the CPU share rescaled by the global
\* CPU usage, as main.rs new() rescales by the warm-up delta
processes_tick_rescaled(sys) ==
    LET Entry(p) ==
            [ id |-> p.pid, name |-> p.name,
              cpu_usage_percent |->
                  IF sys.global_cpu_usage > 0
                  THEN Percent(p.cpu_usage, sys.global_cpu_usage)
                  ELSE Num(0),
              memory_usage_percent |-> Percent(p.memory, sys.total_memory) ]
    IN  Map(sys.processes, Entry)

\* the process list a Tick pushes, in the provider's order
processes_tick(sys) ==
    LET Entry(p) ==
            [ id |-> p.pid, name |-> p.name,
              cpu_usage_percent |-> FromF32(p.cpu_usage),
              memory_usage_percent |-> Percent(p.memory, sys.total_memory) ]
    IN  Map(sys.processes, Entry)

\* f64::partial_cmp
partial_cmp(x, y) ==
    IF x.k = "nan" \/ y.k = "nan" THEN None
    ELSE LET Key(z) == IF z.k = "inf" THEN << z.v, 0 >> ELSE << 0, z.v >>
             a == Key(x)
             b == Key(y)
         IN  IF a = b THEN Some("Equal")
             ELSE IF a[1] < b[1] \/ (a[1] = b[1] /\ a[2] < b[2])
                  THEN Some("Less") ELSE Some("Greater")

\* the comparator handed to sort_by
by_memory_desc(a, b) ==
    unwrap_or(partial_cmp(b.memory_usage_percent, a.memory_usage_percent),
              "Less")

\* slice::sort_by on a short slice: stable insertion sort, each element
\* shifted left while it compares Less than its left neighbour
RECURSIVE insert_tail(_, _)
insert_tail(sorted, x) ==
    IF sorted = <<>> THEN << x >>
    ELSE LET n == Len(sorted)
         IN  IF by_memory_desc(x, sorted[n]) = "Less"
             THEN Append(insert_tail(SubSeq(sorted, 1, n - 1), x), sorted[n])
             ELSE Append(sorted, x)

RECURSIVE sort_by(_)
sort_by(s) ==
    IF s = <<>> THEN <<>>
    ELSE CHOOSE out \in
             { insert_tail(sorted, s[Len(s)]) :
                   sorted \in { sort_by(SubSeq(s, 1, Len(s) - 1)) } } : TRUE

\* Application::new of system_monitor.rs: r0 is read at construction, r1
\* after the one-second sleep
new(r0, r1) ==
    LET sys0 == refresh_all(r0)
        sys1 == refresh_memory(refresh_cpu_all(sys0, r1), r1)
        usage == calculate_disk_usage(r0.disks)
        cpu_time_diff == sys1.global_cpu_usage - sys0.global_cpu_usage
    IN  [ system |-> sys1,
          disks |-> r0.disks,
          networks |-> r0.networks,
          metrics |->
            [ system_base_info |-> system_base_info_of(r0),
              cpu_usage |-> sys0.global_cpu_usage,
              no_of_processes |-> Len(sys0.processes),
              physical_cores |-> unwrap_or(r0.physical_core_count, 0),
              logical_processors |-> Len(sys0.cpus),
              processors_info |-> processors_info_of(sys0),
              memory_usage |-> << sys0.used_memory, sys0.total_memory >>,
              swap_memory_usage |-> << sys0.used_swap, sys0.total_swap >>,
              disk_usage |-> usage,
              disks_info |-> disks_info_new(r0.disks, usage[2]),
              network_sent |-> network_sent_of(r0.networks),
              network_received |-> network_received_of(r0.networks),
              processes |-> processes_new(sys1, cpu_time_diff) ] ]

\* Application::new of main.rs: the second refresh is a full refresh_all
main_new(r0, r1) ==
    LET sys0 == refresh_all(r0)
        sys1 == refresh_all(r1)
        usage == calculate_disk_usage(r0.disks)
        cpu_time_diff == sys1.global_cpu_usage - sys0.global_cpu_usage
    IN  [ system |-> sys1,
          disks |-> r0.disks,
          networks |-> r0.networks,
          metrics |->
            [ system_base_info |-> system_base_info_of(r0),
              cpu_usage |-> sys0.global_cpu_usage,
              no_of_processes |-> Len(sys0.processes),
              physical_cores |-> unwrap_or(r0.physical_core_count, 0),
              logical_processors |-> Len(sys0.cpus),
              processors_info |-> processors_info_of(sys0),
              memory_usage |-> << sys0.used_memory, sys0.total_memory >>,
              swap_memory_usage |-> << sys0.used_swap, sys0.total_swap >>,
              disk_usage |-> usage,
              disks_info |-> disks_info_new(r0.disks, usage[2]),
              network_sent |-> network_sent_of(r0.networks),
              network_received |-> network_received_of(r0.networks),
              processes |-> main_processes_new(sys1, cpu_time_diff) ] ]

\* the Tick body giving up where the core count is missing: the fields
\* assigned before it are updated, the rest keep their values
sample_stopping_at_core_count(m, sys, d, n, r) ==
    IF r.physical_core_count = None
    THEN [ m EXCEPT
             !.cpu_usage = sys.global_cpu_usage,
             !.no_of_processes = Len(sys.processes),
             !.processors_info = processors_info_of(sys) ]
    ELSE [ m EXCEPT
             !.cpu_usage = sys.global_cpu_usage,
             !.no_of_processes = Len(sys.processes),
             !.processors_info = processors_info_of(sys),
             !.physical_cores = unwrap_or(r.physical_core_count, 0),
             !.logical_processors = Len(sys.cpus),
             !.memory_usage = << sys.used_memory, sys.total_memory >>,
             !.swap_memory_usage = << sys.used_swap, sys.total_swap >>,
             !.disk_usage = calculate_disk_usage(d),
             !.disks_info = disks_info_tick(d),
             !.network_sent = network_sent_of(n),
             !.network_received = network_received_of(n),
             !.processes = sort_by(processes_tick(sys)) ]

\* the Tick body leaving the process count as it was
sample_keeping_count(m, sys, d, n, r) ==
    [ m EXCEPT
        !.cpu_usage = sys.global_cpu_usage,
        !.processors_info = processors_info_of(sys),
        !.physical_cores = unwrap_or(r.physical_core_count, 0),
        !.logical_processors = Len(sys.cpus),
        !.memory_usage = << sys.used_memory, sys.total_memory >>,
        !.swap_memory_usage = << sys.used_swap, sys.total_swap >>,
        !.disk_usage = calculate_disk_usage(d),
        !.disks_info = disks_info_tick(d),
        !.network_sent = network_sent_of(n),
        !.network_received = network_received_of(n),
        !.processes = sort_by(processes_tick(sys)) ]

\* the body of Message::Tick when is_monitoring holds (system_monitor.rs):
\* sys is self.system after refresh_all, r the operating system's report at
\* that moment; self.disks and self.networks are read as they are
sample(m, sys, d, n, r) ==
    [ m EXCEPT
        !.cpu_usage = sys.global_cpu_usage,
        !.no_of_processes = Len(sys.processes),
        !.processors_info = processors_info_of(sys),
        !.physical_cores = unwrap_or(r.physical_core_count, 0),
        !.logical_processors = Len(sys.cpus),
        !.memory_usage = << sys.used_memory, sys.total_memory >>,
        !.swap_memory_usage = << sys.used_swap, sys.total_swap >>,
        !.disk_usage = calculate_disk_usage(d),
        !.disks_info = disks_info_tick(d),
        !.network_sent = network_sent_of(n),
        !.network_received = network_received_of(n),
        !.processes = sort_by(processes_tick(sys)) ]

\* the same body in main.rs: no sort
main_sample(m, sys, d, n, r) ==
    [ m EXCEPT
        !.cpu_usage = sys.global_cpu_usage,
        !.no_of_processes = Len(sys.processes),
        !.processors_info = processors_info_of(sys),
        !.physical_cores = unwrap_or(r.physical_core_count, 0),
        !.logical_processors = Len(sys.cpus),
        !.memory_usage = << sys.used_memory, sys.total_memory >>,
        !.swap_memory_usage = << sys.used_swap, sys.total_swap >>,
        !.disk_usage = calculate_disk_usage(d),
        !.disks_info = disks_info_tick(d),
        !.network_sent = network_sent_of(n),
        !.network_received = network_received_of(n),
        !.processes = processes_tick(sys) ]

\* ------------------------------------------------------- text and numbers
DigitChars == << "0", "1", "2", "3", "4", "5", "6", "7", "8", "9" >>

IsDigit(c) == \E d \in 1 .. Len(DigitChars) : DigitChars[d] = c

DigitValue(c) == (CHOOSE d \in 1 .. Len(DigitChars) : DigitChars[d] = c) - 1

RECURSIVE DigitsValue(_)
DigitsValue(t) ==
    IF t = <<>> THEN 0
    ELSE 10 * DigitsValue(SubSeq(t, 1, Len(t) - 1)) + DigitValue(t[Len(t)])

\* u64's Display / serde_json's integer writer: decimal, no padding
RECURSIVE to_string(_)
to_string(n) ==
    IF n < 10 THEN << DigitChars[n + 1] >>
    ELSE Append(to_string(n \div 10), DigitChars[(n % 10) + 1])

\* str::parse::<u64>: an optional "+", then one or more ASCII digits and
\* nothing else (no sign "-", no blanks); the texts of the model stay below
\* the 20 digits at which u64 overflows
parse_u64(t) ==
    LET body == IF t # <<>> /\ t[1] = "+" THEN Tail(t) ELSE t
    IN  IF body = <<>> \/ \E i \in 1 .. Len(body) : ~IsDigit(body[i])
        THEN None
        ELSE Some(DigitsValue(body))

\* what the user can have in the interval field
IntervalTexts ==
    { <<>>, << "a", "b", "c" >>, << "-", "5" >>, << "0" >>, << "2" >>,
      << "+", "2" >> }

\* -------------------------------------------------------------- scheduler
NoSubscription == [tick |-> None, log |-> None]

\* subscription() without the Save-To-File test
subscription_ignoring_save(monitoring, save, interval) ==
    IF monitoring
    THEN LET parsed == parse_u64(interval)
             interval_secs == IF parsed # None THEN parsed[1]
                              ELSE DefaultLogSecs
         IN  IF interval # <<>>
             THEN [tick |-> Some(TickSecs), log |-> Some(interval_secs)]
             ELSE [tick |-> Some(TickSecs), log |-> None]
    ELSE NoSubscription

\* subscription() handing the default period to the log timer
subscription_fixed_period(monitoring, save, interval) ==
    IF monitoring
    THEN IF save /\ interval # <<>>
         THEN [tick |-> Some(TickSecs), log |-> Some(DefaultLogSecs)]
         ELSE [tick |-> Some(TickSecs), log |-> None]
    ELSE NoSubscription

\* subscription() keeping the display timer while monitoring is off
subscription_always_ticking(monitoring, save, interval) ==
    LET parsed == parse_u64(interval)
        interval_secs == IF parsed # None THEN parsed[1] ELSE DefaultLogSecs
    IN  IF monitoring /\ save /\ interval # <<>>
        THEN [tick |-> Some(TickSecs), log |-> Some(interval_secs)]
        ELSE [tick |-> Some(TickSecs), log |-> None]

\* subscription() without the test for an empty interval text: the default
\* period stands in
subscription_ignoring_empty(monitoring, save, interval) ==
    IF monitoring
    THEN LET parsed == parse_u64(interval)
             interval_secs == IF parsed # None THEN parsed[1]
                              ELSE DefaultLogSecs
         IN  IF save
             THEN [tick |-> Some(TickSecs), log |-> Some(interval_secs)]
             ELSE [tick |-> Some(TickSecs), log |-> None]
    ELSE NoSubscription

\* Application::subscription of system_monitor.rs: the period of each
\* time::every source, None when the source is not subscribed
subscription(monitoring, save, interval) ==
    IF monitoring
    THEN LET parsed == parse_u64(interval)
             interval_secs == IF parsed # None THEN parsed[1]
                              ELSE DefaultLogSecs
         IN  IF save /\ interval # <<>>
             THEN [tick |-> Some(TickSecs), log |-> Some(interval_secs)]
             ELSE [tick |-> Some(TickSecs), log |-> None]
    ELSE NoSubscription

\* Application::subscription of main.rs
main_subscription(monitoring) ==
    IF monitoring THEN [tick |-> Some(TickSecs), log |-> None]
    ELSE NoSubscription

\* ------------------------------------------------------------------ logger
\* Utc::now().format("%Y-%m-%d %H:%M:%S"): the instant cut to whole seconds
format_timestamp(now) == to_string(now \div QuartersPerSecond)

\* serde_json's f32 writer on a whole number of percent
f32_to_string(x) == to_string(x) \o << ".", "0" >>

\* log_metrics filling the swap field from memory_usage
serialize_swap_from_memory(m, now) ==
    [ timestamp |-> format_timestamp(now),
      cpu_usage_percent |-> f32_to_string(m.cpu_usage),
      memory_usage_byte |-> << to_string(m.memory_usage[1]),
                               to_string(m.memory_usage[2]) >>,
      swap_memory_usage_byte |-> << to_string(m.memory_usage[1]),
                                    to_string(m.memory_usage[2]) >>,
      disk_usage_byte |-> << to_string(m.disk_usage[1]),
                             to_string(m.disk_usage[2]) >>,
      network_sent_byte |-> to_string(m.network_sent),
      network_received_byte |-> to_string(m.network_received) ]

\* models.rs SystemData filled by utils.rs log_metrics and serialized by
\* serde_json::to_string: one JSON object, numbers as their decimal text
serialize(m, now) ==
    [ timestamp |-> format_timestamp(now),
      cpu_usage_percent |-> f32_to_string(m.cpu_usage),
      memory_usage_byte |-> << to_string(m.memory_usage[1]),
                               to_string(m.memory_usage[2]) >>,
      swap_memory_usage_byte |-> << to_string(m.swap_memory_usage[1]),
                                    to_string(m.swap_memory_usage[2]) >>,
      disk_usage_byte |-> << to_string(m.disk_usage[1]),
                             to_string(m.disk_usage[2]) >>,
      network_sent_byte |-> to_string(m.network_sent),
      network_received_byte |-> to_string(m.network_received) ]

\* main.rs SystemData filled by main.rs log_metrics
main_serialize(m) ==
    [ cpu_usage |-> f32_to_string(m.cpu_usage),
      memory_usage |-> << to_string(m.memory_usage[1]),
                          to_string(m.memory_usage[2]) >>,
      disk_usage |-> << to_string(m.disk_usage[1]),
                        to_string(m.disk_usage[2]) >>,
      network_sent |-> to_string(m.network_sent),
      network_received |-> to_string(m.network_received) ]

\* serde_json reading a number back
parse_number(t) ==
    LET dot == { i \in 1 .. Len(t) : t[i] = "." }
        whole == IF dot = {} THEN t
                 ELSE SubSeq(t, 1, (CHOOSE i \in dot : TRUE) - 1)
    IN  DigitsValue(whole)

\* #[derive(Deserialize)] on models.rs SystemData: a line read back
deserialize(line) ==
    [ timestamp |-> line.timestamp,
      cpu_usage_percent |-> parse_number(line.cpu_usage_percent),
      memory_usage_byte |-> << parse_number(line.memory_usage_byte[1]),
                               parse_number(line.memory_usage_byte[2]) >>,
      swap_memory_usage_byte |->
          << parse_number(line.swap_memory_usage_byte[1]),
             parse_number(line.swap_memory_usage_byte[2]) >>,
      disk_usage_byte |-> << parse_number(line.disk_usage_byte[1]),
                             parse_number(line.disk_usage_byte[2]) >>,
      network_sent_byte |-> parse_number(line.network_sent_byte),
      network_received_byte |-> parse_number(line.network_received_byte) ]

\* what OpenOptions::open and writeln! can do
IoOutcomes == { "ok", "open_failed", "write_failed" }

Instants == 0 .. MaxNow

\* the file opened with truncate(true) instead of append(true)
truncating_write(file, line, io) == IF io = "ok" THEN << line >> ELSE file

\* OpenOptions::new().create(true).append(true).open(..) then writeln!:
\* the file after the call; both calls are .expect()ed
append_line(file, line, io) == IF io = "ok" THEN Append(file, line) ELSE file

\* utils.rs log_metrics: the log file and whether the call panicked
log_metrics(m, file, now, io) ==
    [ system_log |-> append_line(file, serialize(m, now), io),
      panicked |-> io # "ok" ]

\* main.rs log_metrics
main_log_metrics(m, file, io) ==
    [ system_log |-> append_line(file, main_serialize(m), io),
      panicked |-> io # "ok" ]

\* ------------------------------------------------------------ state machine
Messages == { "Tick", "LogToFile" }

AllShown == [cpu |-> TRUE, memory |-> TRUE, disk |-> TRUE, network |-> TRUE,
             process |-> TRUE]

\* system_monitor.rs: the state new() returns
InitModular ==
    \E r0 \in Readings, r1 \in Readings :
        LET made == new(r0, r1)
        IN  /\ revision = "modular"
            /\ os = r1
            /\ system = made.system
            /\ disks = made.disks
            /\ networks = made.networks
            /\ metrics = made.metrics
            /\ is_monitoring = FALSE
            /\ save_to_file = FALSE
            /\ interval_in_secs = <<>>
            /\ show = AllShown

\* main.rs: the state new() returns
InitStandalone ==
    \E r0 \in Readings, r1 \in Readings :
        LET made == main_new(r0, r1)
        IN  /\ revision = "standalone"
            /\ os = r1
            /\ system = made.system
            /\ disks = made.disks
            /\ networks = made.networks
            /\ metrics = made.metrics
            /\ is_monitoring = FALSE
            /\ save_to_file = FALSE
            /\ interval_in_secs = <<>>
            /\ show = AllShown

\* the process as iced starts it: new() has run, with its one sleep
Started ==
    /\ InitModular \/ InitStandalone
    /\ system_log = <<>>
    /\ queue = <<>>
    /\ active = NoSubscription
    /\ panicked = FALSE
    /\ last = "new"
    /\ sleeps = 1

\* the value of held in the runs that keep no history
NotKept == "not kept"

\* the history variable after a step that would record h
Kept(h) == IF held = NotKept THEN NotKept ELSE h

\* the scenario history: not kept, at its start, and once the run has left
\* the scenario
NoScenario == [status |-> NotKept, ticks |-> 0, samples |-> <<>>]

Begun == [status |-> "running", ticks |-> 0, samples |-> <<>>]

Left == [status |-> "left", ticks |-> 0, samples |-> <<>>]

\* the scenario history after a step that would make it h
Noted(h) == IF scenario.status = NotKept THEN scenario ELSE h

\* a Tick of the scenario was handled without a sample being taken
Ticked ==
    IF scenario.status = "running" /\ scenario.ticks < MaxTicks
    THEN [scenario EXCEPT !.ticks = @ + 1]
    ELSE Left

\* a Tick of the scenario was handled and took the snapshot m from the
\* reading r
Sampled(r, m) ==
    IF scenario.status = "running" /\ scenario.ticks < MaxTicks
    THEN [scenario EXCEPT !.ticks = @ + 1,
                          !.samples = Append(@, [reading |-> r,
                                                 snapshot |-> m])]
    ELSE Left

\* monitoring was toggled: the scenario goes on when that is its first event
Toggled == IF scenario = Begun /\ ~is_monitoring THEN Begun ELSE Left

\* the three conditions of the log timer, after a step
Arming ==
    armed' = IF armed = NotKept THEN NotKept
             ELSE IF \/ armed = "once"
                     \/ /\ is_monitoring' /\ save_to_file'
                        /\ interval_in_secs' # <<>>
                  THEN "once" ELSE "never"

Init == Started /\ held = NotKept /\ scenario = NoScenario /\ armed = NotKept

\* the same start, keeping the history of snapshots
InitWithHistory ==
    Started /\ held = None /\ scenario = Begun /\ armed = NotKept

\* the same start, keeping the history of the log timer's conditions
InitWithArming ==
    Started /\ held = NotKept /\ scenario = NoScenario /\ armed = "never"

\* a disk list as Disks::new_with_refreshed_list() may return it
DiskList(t1, a1, t2, a2) ==
    << [name |-> "sda", kind |-> "SSD", mount_point |-> "/",
        total_space |-> t1, available_space |-> a1],
       [name |-> "sdb", kind |-> "HDD", mount_point |-> "/mnt",
        total_space |-> t2, available_space |-> a2] >>

\* the disks of Readings, a disk that reports more available than total
\* space (a quota or a compressing file system), and two disks whose sizes
\* add up to more than a word holds
DiskLists ==
    { r.disks : r \in Readings }
        \cup { DiskList(100, 110, 0, 0),
               DiskList(Word - 100, 0, 200, 50) }

\* new() on a host whose disks are d.  A build with overflow checks panics
\* in new() at the first fold that overflows, before the sleep; a build
\* without them goes on with the wrapped sums.  The fields of the process
\* that panicked are never read
StartedWithDisks ==
    \E d \in DiskLists, r0 \in Readings, r1 \in Readings,
       rev \in { "modular", "standalone" }, checked \in BOOLEAN :
        LET on0 == [r0 EXCEPT !.disks = d]
            on1 == [r1 EXCEPT !.disks = d]
            made == IF rev = "modular" THEN new(on0, on1)
                    ELSE main_new(on0, on1)
            died == checked /\ disk_usage_overflows(d)
        IN  /\ revision = rev
            /\ system = made.system
            /\ disks = made.disks
            /\ networks = made.networks
            /\ metrics = made.metrics
            /\ os = IF died THEN on0 ELSE on1
            /\ is_monitoring = FALSE
            /\ save_to_file = FALSE
            /\ interval_in_secs = <<>>
            /\ show = AllShown
            /\ system_log = <<>>
            /\ queue = <<>>
            /\ active = NoSubscription
            /\ panicked = died
            /\ last = "new"
            /\ sleeps = IF died THEN 0 ELSE 1

\* the start on any of the disk lists, keeping no history
InitWithDisks ==
    StartedWithDisks /\ held = NotKept /\ scenario = NoScenario
        /\ armed = NotKept

Running(rev) == revision = rev /\ ~panicked

Delivered(msg) == queue # <<>> /\ Head(queue) = msg /\ queue' = Tail(queue)

\* the runtime keeping a log timer it already runs, whatever period
\* subscription() now asks for
ResubscribeKeepingLogTimer ==
    active' = IF revision = "modular"
              THEN LET asked == subscription(is_monitoring', save_to_file',
                                             interval_in_secs')
                   IN  IF active.log # None /\ asked.log # None
                       THEN [asked EXCEPT !.log = active.log]
                       ELSE asked
              ELSE main_subscription(is_monitoring')

\* the runtime asks subscription() again after every update
Resubscribe ==
    active' = IF revision = "modular"
              THEN subscription(is_monitoring', save_to_file',
                                interval_in_secs')
              ELSE main_subscription(is_monitoring')

\* ---- system_monitor.rs update
\* Tick without the is_monitoring test
TickUnguarded ==
    /\ Running("modular")
    /\ Delivered("Tick")
    /\ \E r \in Readings :
          /\ os' = r
          /\ system' = refresh_all(r)
          /\ metrics' = sample(metrics, system', disks, networks, r)
          /\ scenario' = Noted(Sampled(r, metrics'))
    /\ last' = "Tick"
    /\ held' = Kept(None)
    /\ UNCHANGED << revision, disks, networks, is_monitoring,
                    save_to_file, interval_in_secs, show, system_log,
                    panicked, sleeps, armed >>
    /\ Resubscribe

\* Tick repeating the warm-up of new(): baseline, one-second sleep, second
\* reading
TickWarmingUp ==
    /\ Running("modular")
    /\ Delivered("Tick")
    /\ IF is_monitoring
       THEN \E r \in Readings :
                /\ os' = r
                /\ system' = refresh_all(r)
                /\ metrics' = sample(metrics, system', disks, networks, r)
                /\ sleeps' = sleeps + 1
                /\ scenario' = Noted(Sampled(r, metrics'))
       ELSE /\ UNCHANGED << os, system, metrics, sleeps >>
            /\ scenario' = Noted(Ticked)
    /\ last' = "Tick"
    /\ held' = Kept(IF is_monitoring THEN None ELSE held)
    /\ UNCHANGED << revision, disks, networks, is_monitoring,
                    save_to_file, interval_in_secs, show, system_log,
                    panicked, armed >>
    /\ Resubscribe

Tick ==
    /\ Running("modular")
    /\ Delivered("Tick")
    /\ IF is_monitoring
       THEN \E r \in Readings :
                /\ os' = r
                /\ system' = refresh_all(r)
                /\ metrics' = sample(metrics, system', disks, networks, r)
                /\ scenario' = Noted(Sampled(r, metrics'))
       ELSE /\ UNCHANGED << os, system, metrics >>
            /\ scenario' = Noted(Ticked)
    /\ last' = "Tick"
    /\ held' = Kept(IF is_monitoring THEN None ELSE held)
    /\ UNCHANGED << revision, disks, networks, is_monitoring,
                    save_to_file, interval_in_secs, show, system_log,
                    panicked, sleeps, armed >>
    /\ Resubscribe

\* LogToFile reading the CPU usage afresh before it writes: the record and
\* the snapshot mix two readings
LogToFileRefreshingCpu ==
    /\ Running("modular")
    /\ Delivered("LogToFile")
    /\ \E r \in Readings, now \in Instants, io \in IoOutcomes :
          LET m == [metrics EXCEPT !.cpu_usage = r.global_cpu_usage]
              done == log_metrics(m, system_log, now, io)
          IN  /\ Len(done.system_log) <= MaxLog
              /\ os' = r
              /\ system' = refresh_cpu_all(system, r)
              /\ metrics' = m
              /\ system_log' = done.system_log
              /\ panicked' = done.panicked
    /\ last' = "LogToFile"
    /\ scenario' = Noted(Left)
    /\ UNCHANGED << revision, disks, networks, is_monitoring, save_to_file,
                    interval_in_secs, show, sleeps, held, armed >>
    /\ Resubscribe

\* LogToFile switching the logging flag off once it has written
LogToFileSwitchingOff ==
    /\ Running("modular")
    /\ Delivered("LogToFile")
    /\ \E now \in Instants, io \in IoOutcomes :
          LET done == log_metrics(metrics, system_log, now, io)
          IN  /\ Len(done.system_log) <= MaxLog
              /\ system_log' = done.system_log
              /\ panicked' = done.panicked
    /\ save_to_file' = FALSE
    /\ last' = "LogToFile"
    /\ scenario' = Noted(Left)
    /\ UNCHANGED << revision, os, system, disks, networks, metrics,
                    is_monitoring, interval_in_secs, show, sleeps, held,
                    armed >>
    /\ Resubscribe

LogToFile ==
    /\ Running("modular")
    /\ Delivered("LogToFile")
    /\ \E now \in Instants, io \in IoOutcomes :
          LET done == log_metrics(metrics, system_log, now, io)
          IN  /\ Len(done.system_log) <= MaxLog
              /\ system_log' = done.system_log
              /\ panicked' = done.panicked
    /\ last' = "LogToFile"
    /\ scenario' = Noted(Left)
    /\ UNCHANGED << revision, os, system, disks, networks, metrics,
                    is_monitoring, save_to_file, interval_in_secs, show,
                    sleeps, held, armed >>
    /\ Resubscribe

\* ToggleSaveToFile flipping the flag whatever value the checkbox sends
ToggleSaveToFileFlipping(x) ==
    /\ Running("modular")
    /\ save_to_file' = ~save_to_file
    /\ last' = "input"
    /\ scenario' = Noted(Left)
    /\ UNCHANGED << revision, os, system, disks, networks, metrics,
                    is_monitoring, interval_in_secs, show, system_log, queue,
                    panicked, sleeps, held >>
    /\ Resubscribe
    /\ Arming

ToggleSaveToFile(x) ==
    /\ Running("modular")
    /\ save_to_file' = x
    /\ last' = "input"
    /\ scenario' = Noted(Left)
    /\ UNCHANGED << revision, os, system, disks, networks, metrics,
                    is_monitoring, interval_in_secs, show, system_log, queue,
                    panicked, sleeps, held >>
    /\ Resubscribe
    /\ Arming

\* ToggleMonitoring dropping the process list when monitoring is switched off
ToggleMonitoringClearing ==
    /\ Running("modular")
    /\ is_monitoring' = ~is_monitoring
    /\ last' = "input"
    /\ held' = Kept(IF is_monitoring THEN Some(metrics) ELSE held)
    /\ metrics' = IF is_monitoring THEN [metrics EXCEPT !.processes = <<>>]
                  ELSE metrics
    /\ scenario' = Noted(Toggled)
    /\ UNCHANGED << revision, os, system, disks, networks, save_to_file,
                    interval_in_secs, show, system_log, queue, panicked,
                    sleeps >>
    /\ Resubscribe
    /\ Arming

\* ToggleMonitoring taking a fresh sample when monitoring is switched on
ToggleMonitoringResampling ==
    /\ Running("modular")
    /\ is_monitoring' = ~is_monitoring
    /\ last' = "input"
    /\ held' = Kept(IF is_monitoring THEN Some(metrics) ELSE held)
    /\ IF is_monitoring
       THEN UNCHANGED << os, system, metrics >>
       ELSE \E r \in Readings :
                /\ os' = r
                /\ system' = refresh_all(r)
                /\ metrics' = sample(metrics, system', disks, networks, r)
    /\ scenario' = Noted(Toggled)
    /\ UNCHANGED << revision, disks, networks, save_to_file,
                    interval_in_secs, show, system_log, queue, panicked,
                    sleeps >>
    /\ Resubscribe
    /\ Arming

ToggleMonitoring ==
    /\ Running("modular")
    /\ is_monitoring' = ~is_monitoring
    /\ last' = "input"
    /\ held' = Kept(IF is_monitoring THEN Some(metrics) ELSE held)
    /\ scenario' = Noted(Toggled)
    /\ UNCHANGED << revision, os, system, disks, networks, metrics,
                    save_to_file, interval_in_secs, show, system_log, queue,
                    panicked, sleeps >>
    /\ Resubscribe
    /\ Arming

\* IntervalChanged keeping the old text when the new one is not a number
IntervalChangedValidated(x) ==
    /\ Running("modular")
    /\ interval_in_secs' = IF parse_u64(x) # None THEN x ELSE interval_in_secs
    /\ last' = "input"
    /\ scenario' = Noted(Left)
    /\ UNCHANGED << revision, os, system, disks, networks, metrics,
                    is_monitoring, save_to_file, show, system_log, queue,
                    panicked, sleeps, held >>
    /\ Resubscribe
    /\ Arming

IntervalChanged(x) ==
    /\ Running("modular")
    /\ interval_in_secs' = x
    /\ last' = "input"
    /\ scenario' = Noted(Left)
    /\ UNCHANGED << revision, os, system, disks, networks, metrics,
                    is_monitoring, save_to_file, show, system_log, queue,
                    panicked, sleeps, held >>
    /\ Resubscribe
    /\ Arming

\* ---- main.rs update
\* the SystemMonitor value of main.rs that update works on
MainSelf ==
    [ system |-> system, disks |-> disks, networks |-> networks,
      metrics |-> metrics, is_monitoring |-> is_monitoring, show |-> show ]

\* the Tick body skipping the categories that are hidden
main_tick_skipping_hidden(self, file, r, io) ==
    LET sys == refresh_all(r)
        full == main_sample(self.metrics, sys, self.disks, self.networks, r)
        m == [ full EXCEPT
                 !.cpu_usage = IF self.show.cpu THEN @
                               ELSE self.metrics.cpu_usage,
                 !.memory_usage = IF self.show.memory THEN @
                                  ELSE self.metrics.memory_usage,
                 !.disk_usage = IF self.show.disk THEN @
                                ELSE self.metrics.disk_usage,
                 !.network_sent = IF self.show.network THEN @
                                  ELSE self.metrics.network_sent,
                 !.processes = IF self.show.process THEN @
                               ELSE self.metrics.processes ]
        done == main_log_metrics(m, file, io)
    IN  [ system |-> sys, metrics |-> m, system_log |-> done.system_log,
          panicked |-> done.panicked ]

\* the body of Message::Tick of main.rs when is_monitoring holds: refresh,
\* sample, then log_metrics(&self); file is system_log.json before the call
main_tick(self, file, r, io) ==
    LET sys == refresh_all(r)
        m == main_sample(self.metrics, sys, self.disks, self.networks, r)
        done == main_log_metrics(m, file, io)
    IN  [ system |-> sys, metrics |-> m, system_log |-> done.system_log,
          panicked |-> done.panicked ]

MainTick ==
    /\ Running("standalone")
    /\ Delivered("Tick")
    /\ IF is_monitoring
       THEN \E r \in Readings, io \in IoOutcomes :
                \E done \in { main_tick(MainSelf, system_log, r, io) } :
                    /\ Len(done.system_log) <= MaxLog
                    /\ os' = r
                    /\ system' = done.system
                    /\ metrics' = done.metrics
                    /\ system_log' = done.system_log
                    /\ panicked' = done.panicked
                    /\ scenario' = Noted(Sampled(r, done.metrics))
       ELSE /\ UNCHANGED << os, system, metrics, system_log, panicked >>
            /\ scenario' = Noted(Ticked)
    /\ last' = "Tick"
    /\ held' = Kept(IF is_monitoring THEN None ELSE held)
    /\ UNCHANGED << revision, disks, networks, is_monitoring,
                    save_to_file, interval_in_secs, show, sleeps, armed >>
    /\ Resubscribe

MainToggleMonitoring ==
    /\ Running("standalone")
    /\ is_monitoring' = ~is_monitoring
    /\ last' = "input"
    /\ held' = Kept(IF is_monitoring THEN Some(metrics) ELSE held)
    /\ scenario' = Noted(Toggled)
    /\ UNCHANGED << revision, os, system, disks, networks, metrics,
                    save_to_file, interval_in_secs, show, system_log, queue,
                    panicked, sleeps, armed >>
    /\ Resubscribe

\* a visibility toggle applied to every category at once
SetShownEvery(category, value) ==
    /\ Running("standalone")
    /\ show' = [c \in DOMAIN show |-> value]
    /\ last' = "input"
    /\ scenario' = Noted(Left)
    /\ UNCHANGED << revision, os, system, disks, networks, metrics,
                    is_monitoring, save_to_file, interval_in_secs, system_log,
                    queue, panicked, sleeps, held, armed >>
    /\ Resubscribe

SetShown(category, value) ==
    /\ Running("standalone")
    /\ show' = [show EXCEPT ![category] = value]
    /\ last' = "input"
    /\ scenario' = Noted(Left)
    /\ UNCHANGED << revision, os, system, disks, networks, metrics,
                    is_monitoring, save_to_file, interval_in_secs, system_log,
                    queue, panicked, sleeps, held, armed >>
    /\ Resubscribe

ToggleCpu(value) == SetShown("cpu", value)

ToggleMemory(value) == SetShown("memory", value)

ToggleDisk(value) == SetShown("disk", value)

ToggleNetwork(value) == SetShown("network", value)

ToggleProcess(value) == SetShown("process", value)

\* ---- the runtime's timers (time::every)
TickTimer ==
    /\ ~panicked
    /\ active.tick # None
    /\ Len(queue) < MaxQueue
    /\ queue' = Append(queue, "Tick")
    /\ UNCHANGED << revision, os, system, disks, networks, metrics,
                    is_monitoring, save_to_file, interval_in_secs, show,
                    system_log, active, panicked, last, sleeps, held,
                    scenario, armed >>

\* a period of zero seconds is left out: what time::every does with it
\* depends on the executor the application is built with
LogTimer ==
    /\ ~panicked
    /\ active.log # None
    /\ active.log[1] > 0
    /\ Len(queue) < MaxQueue
    /\ queue' = Append(queue, "LogToFile")
    /\ UNCHANGED << revision, os, system, disks, networks, metrics,
                    is_monitoring, save_to_file, interval_in_secs, show,
                    system_log, active, panicked, last, sleeps, held,
                    scenario, armed >>

UserInput ==
    \/ \E x \in BOOLEAN : ToggleSaveToFile(x)
    \/ ToggleMonitoring
    \/ \E x \in IntervalTexts : IntervalChanged(x)

MainUserInput ==
    \/ MainToggleMonitoring
    \/ \E value \in BOOLEAN : ToggleCpu(value)
    \/ \E value \in BOOLEAN : ToggleMemory(value)
    \/ \E value \in BOOLEAN : ToggleDisk(value)
    \/ \E value \in BOOLEAN : ToggleNetwork(value)
    \/ \E value \in BOOLEAN : ToggleProcess(value)

Next ==
    \/ Tick
    \/ LogToFile
    \/ UserInput
    \/ MainTick
    \/ MainUserInput
    \/ TickTimer
    \/ LogTimer

Spec == Init /\ [][Next]_vars

\* the same program, with the history of snapshots kept
SpecWithHistory == InitWithHistory /\ [][Next]_vars

\* the same program, with the history of the log timer's conditions kept
SpecWithArming == InitWithArming /\ [][Next]_vars

\* the same program started on any of the disk lists
SpecWithDisks == InitWithDisks /\ [][Next]_vars

\* the same program under the scheduling iced and its executor give: a
\* message in the queue is handled in the end, and each time::every source
\* fires again and again while it is subscribed, whatever the other does
SpecFair ==
    /\ Init
    /\ [][Next]_vars
    /\ WF_vars(Tick)
    /\ WF_vars(LogToFile)
    /\ WF_vars(MainTick)
    /\ SF_vars(TickTimer)
    /\ SF_vars(LogTimer)

\* ------------------------------------------------------------------ claims
\* a step in which update handled the message at the head of the queue
Handled(msg) == queue # <<>> /\ Head(queue) = msg /\ queue' = Tail(queue)

IsPrefix(s, t) == Len(s) <= Len(t) /\ SubSeq(t, 1, Len(s)) = s

\* what a log line read back says, against the snapshot
RecordMatches(line, m) ==
    LET rec == deserialize(line)
    IN  /\ rec.cpu_usage_percent = m.cpu_usage
        /\ rec.memory_usage_byte = m.memory_usage
        /\ rec.swap_memory_usage_byte = m.swap_memory_usage
        /\ rec.disk_usage_byte = m.disk_usage
        /\ rec.network_sent_byte = m.network_sent
        /\ rec.network_received_byte = m.network_received

\* C1: a Tick handled while is_monitoring is false changes nothing: the
\* snapshot, the provider caches, is_monitoring, the logging flag, the
\* visibility flags, the interval text and the log stay as they were, and
\* the process does not panic.
C1_TickWhileStoppedIsNoOp ==
    [][ (Handled("Tick") /\ ~is_monitoring) =>
            /\ metrics' = metrics
            /\ system' = system
            /\ is_monitoring' = is_monitoring
            /\ save_to_file' = save_to_file
            /\ show' = show
            /\ interval_in_secs' = interval_in_secs
            /\ system_log' = system_log
            /\ ~panicked' ]_vars

\* a Tick that was still queued when monitoring was switched off has been
\* handled
C1_Witness ==
    last = "Tick" /\ ~is_monitoring /\ active.tick = None /\ ~panicked

\* C2: handling LogToFile calls the logger (a line is appended, or the call
\* fails) if and only if save_to_file is true at that moment.
C2_LogTickWritesIffLoggingEnabled ==
    [][ Handled("LogToFile") =>
            ((system_log' # system_log \/ panicked') <=> save_to_file) ]_vars

\* C3: with an interval text that does not parse to a positive integer the
\* logging timer is not subscribed; no default period stands in.
C3_InvalidIntervalDisablesLogging ==
    LET parsed == parse_u64(interval_in_secs)
    IN  (parsed = None \/ parsed = Some(0)) => active.log = None

\* C4: the logging timer is subscribed only while is_monitoring and
\* save_to_file are both true.
C4_LogTimerNeedsBothFlags ==
    active.log # None => (is_monitoring /\ save_to_file)

\* logging was switched off while a log tick was in flight, and the timer is
\* gone at the next scheduling check
C4_Witness ==
    /\ is_monitoring /\ ~save_to_file /\ interval_in_secs = << "2" >>
    /\ queue # <<>> /\ Head(queue) = "LogToFile"
    /\ active.log = None

\* C5: for a text that parses to a positive integer, the logging timer,
\* when subscribed, has that integer as its period.
C5_LogPeriodIsParsedInterval ==
    LET parsed == parse_u64(interval_in_secs)
    IN  (active.log # None /\ parsed # None /\ parsed[1] > 0) =>
            active.log = parsed

C5_Witness ==
    interval_in_secs = << "2" >> /\ active.log = Some(2)

\* C6: the display timer is subscribed, with period 1, exactly while
\* is_monitoring is true; while it is false nothing at all is subscribed.
C6_DisplayTimerIffMonitoring ==
    /\ is_monitoring => active.tick = Some(TickSecs)
    /\ ~is_monitoring => active = NoSubscription

\* monitoring was on and is off again, with nothing subscribed
C6_Witness ==
    ~is_monitoring /\ active = NoSubscription /\ last = "input" /\ queue # <<>>

\* C7: a failure to open or write the log file while a logging tick is
\* handled does not end the process and leaves the monitor's state as it was.
C7_LogFailureIsRecovered ==
    [][ Handled("LogToFile") =>
            /\ ~panicked'
            /\ metrics' = metrics
            /\ is_monitoring' = is_monitoring
            /\ save_to_file' = save_to_file
            /\ interval_in_secs' = interval_in_secs ]_vars

\* C8: the log only grows, by one line at a time, the lines already there
\* staying in place; a logger call that succeeds adds exactly one line.
C8_LogIsAppendOnly ==
    [][ /\ IsPrefix(system_log, system_log')
        /\ Len(system_log') <= Len(system_log) + 1
        /\ (Handled("LogToFile") /\ ~panicked') =>
               Len(system_log') = Len(system_log) + 1 ]_vars

\* two different lines were appended one after the other
C8_Witness ==
    Len(system_log) = 2 /\ system_log[1] # system_log[2] /\ ~panicked

\* C9: right after a logger call that succeeded, the last line of the log
\* read back gives the CPU usage, memory, swap, disk and network values of
\* the snapshot.
C9_RecordCarriesSnapshot ==
    (last = "LogToFile" /\ ~panicked) =>
        /\ system_log # <<>>
        /\ RecordMatches(system_log[Len(system_log)], metrics)

\* a line was written from a snapshot a Tick had taken, with values of two
\* and more digits
C9_Witness ==
    /\ last = "LogToFile" /\ ~panicked
    /\ metrics.cpu_usage >= 10 /\ metrics.memory_usage[1] >= 10
    /\ metrics.memory_usage # metrics.swap_memory_usage

\* C10: right after a Tick handled while monitoring, every field of the
\* snapshot is what the operating system reported at that refresh: CPU,
\* memory, swap, disks, network, processes and host information.
C10_TickRefreshesEverySubdomain ==
    (last = "Tick" /\ is_monitoring /\ ~panicked) =>
        /\ metrics.cpu_usage = os.global_cpu_usage
        /\ metrics.memory_usage = << os.used_memory, os.total_memory >>
        /\ metrics.swap_memory_usage = << os.used_swap, os.total_swap >>
        /\ metrics.no_of_processes = Len(os.processes)
        /\ metrics.physical_cores = unwrap_or(os.physical_core_count, 0)
        /\ metrics.disk_usage = calculate_disk_usage(os.disks)
        /\ metrics.network_sent = network_sent_of(os.networks)
        /\ metrics.network_received = network_received_of(os.networks)
        /\ metrics.system_base_info = system_base_info_of(os)

\* C11: from the moment ToggleMonitoring switches monitoring off, through
\* whatever is handled while it is off and after it is switched on again,
\* the snapshot is the one held at that moment, until a Tick is handled with
\* is_monitoring true.
C11_PauseResumeKeepsSnapshot ==
    (held # NotKept /\ held # None) => metrics = held[1]

\* monitoring was switched off and on again; the next Tick is queued and no
\* sample has been taken yet
C11_Witness ==
    /\ held # NotKept /\ held # None
    /\ is_monitoring /\ queue # <<>> /\ ~panicked

\* C12: ToggleMonitoring can always be handled and negates is_monitoring,
\* and the step that changes is_monitoring changes nothing else of the
\* monitor: the snapshot (process list included), the provider caches, the
\* logging flag, the visibility flags, the interval text and the log are
\* the same after it as before.
C12_ToggleMonitoringFrame ==
    /\ [](~panicked =>
            /\ revision = "modular" =>
                   ENABLED (ToggleMonitoring /\ is_monitoring' = ~is_monitoring)
            /\ revision = "standalone" =>
                   ENABLED (MainToggleMonitoring
                            /\ is_monitoring' = ~is_monitoring))
    /\ [][ is_monitoring' # is_monitoring =>
               /\ is_monitoring' = ~is_monitoring
               /\ metrics' = metrics
               /\ system' = system
               /\ disks' = disks
               /\ networks' = networks
               /\ save_to_file' = save_to_file
               /\ show' = show
               /\ interval_in_secs' = interval_in_secs
               /\ system_log' = system_log
               /\ queue' = queue
               /\ ~panicked' ]_vars

\* monitoring was switched off with a Tick still queued, the logging flag
\* set, an interval typed in, a line in the log and a snapshot to keep
C12_Witness ==
    /\ ~is_monitoring /\ last = "input" /\ queue = << "Tick" >>
    /\ save_to_file /\ interval_in_secs # <<>> /\ system_log # <<>>
    /\ metrics.cpu_usage > 0 /\ metrics.processes # <<>>

\* C13: what a Tick produces does not depend on the visibility flags:
\* whenever the standalone monitor is about to handle a Tick while
\* monitoring, the handler yields the same provider cache, the same snapshot
\* and the same log record (or the same failure) as it does with every
\* category shown, hence the same under any two settings of the flags.  With
\* C14 (a ToggleVisibility step changes its flag only), two runs that differ
\* in their ToggleVisibility events alone go through the same snapshots and
\* the same log.
C13_VisibilityDoesNotInterfere ==
    (/\ revision = "standalone" /\ is_monitoring /\ ~panicked
     /\ queue # <<>> /\ Head(queue) = "Tick") =>
        \A r \in Readings, io \in IoOutcomes :
            main_tick(MainSelf, system_log, r, io)
                = main_tick([MainSelf EXCEPT !.show = AllShown],
                            system_log, r, io)

\* a Tick has sampled and logged while CPU and processes were hidden
C13_Witness ==
    /\ revision = "standalone" /\ last = "Tick" /\ is_monitoring
    /\ ~show.cpu /\ ~show.process /\ show.memory
    /\ system_log # <<>> /\ ~panicked

\* C14: each of ToggleCpu .. ToggleProcess can be handled whether or not
\* monitoring is running and sets the flag of its own category to the value
\* it carries; a step that changes the visibility flags changes one flag
\* and leaves the other four, is_monitoring, the snapshot, the provider
\* caches and the log unchanged.
C14_ToggleVisibilityFrame ==
    /\ []((revision = "standalone" /\ ~panicked) =>
            \A value \in BOOLEAN :
                /\ ENABLED (ToggleCpu(value)
                            /\ show' = [show EXCEPT !.cpu = value])
                /\ ENABLED (ToggleMemory(value)
                            /\ show' = [show EXCEPT !.memory = value])
                /\ ENABLED (ToggleDisk(value)
                            /\ show' = [show EXCEPT !.disk = value])
                /\ ENABLED (ToggleNetwork(value)
                            /\ show' = [show EXCEPT !.network = value])
                /\ ENABLED (ToggleProcess(value)
                            /\ show' = [show EXCEPT !.process = value]))
    /\ [][ show' # show =>
               /\ \E category \in DOMAIN show :
                      show' = [show EXCEPT ![category] = ~@]
               /\ is_monitoring' = is_monitoring
               /\ metrics' = metrics
               /\ system' = system
               /\ disks' = disks
               /\ networks' = networks
               /\ system_log' = system_log
               /\ queue' = queue
               /\ ~panicked' ]_vars

\* disks were hidden while monitoring was running and processes after it
\* had been stopped; the Tick still queued has not been handled
C14_Witness ==
    /\ revision = "standalone" /\ last = "input" /\ ~is_monitoring
    /\ ~show.disk /\ ~show.process /\ show.cpu /\ show.memory /\ show.network
    /\ queue = << "Tick" >> /\ system_log # <<>>

\* texts the interval field can be handed, beyond the ones the runs go
\* through: a partial number, a number with a blank
TypedTexts == IntervalTexts \cup { << "2", "a" >>, << " ", "2" >> }

\* C15: IntervalChanged(text) is accepted for every text (empty, not a
\* number, negative, partial number) and stores it as it is; the step that
\* changes the interval text changes no other field of the monitor.
C15_IntervalStoredVerbatim ==
    /\ []((revision = "modular" /\ ~panicked) =>
            \A text \in TypedTexts :
                ENABLED (IntervalChanged(text) /\ interval_in_secs' = text))
    /\ [][ interval_in_secs' # interval_in_secs =>
               /\ is_monitoring' = is_monitoring
               /\ save_to_file' = save_to_file
               /\ metrics' = metrics
               /\ system' = system
               /\ disks' = disks
               /\ networks' = networks
               /\ show' = show
               /\ system_log' = system_log
               /\ queue' = queue
               /\ ~panicked' ]_vars

\* a negative number was typed over another text while monitoring and
\* logging were on
C15_Witness ==
    /\ interval_in_secs = << "-", "5" >> /\ last = "input"
    /\ is_monitoring /\ save_to_file /\ system_log # <<>>

\* C16: in every snapshot, the initial one and the one of each Tick, the
\* used-percent of a disk is 0 when the disk's total is 0 and
\* (total - free) / total * 100 otherwise, never NaN or infinity.
C16_DiskPercentGuarded ==
    \A i \in 1 .. Len(metrics.disks_info) :
        LET info == metrics.disks_info[i]
        IN  info.used_disk_percent =
                IF info.total_disk = 0 THEN Num(0)
                ELSE Num(((info.total_disk - info.free_disk) * 10000)
                             \div info.total_disk)

\* C17: when the provider reports a total memory of 0, the sample completes
\* (at startup and on a Tick) and every per-process memory percent, computed
\* against that total, is 0.
C17_ZeroTotalMemoryGivesZeroPercent ==
    (system.total_memory = 0 /\ ~panicked) =>
        \A i \in 1 .. Len(metrics.processes) :
            metrics.processes[i].memory_usage_percent = Num(0)

\* the reading r with the physical core count reported as c
WithCoreCount(r, c) == [r EXCEPT !.physical_core_count = c]

\* C18: when the provider cannot report the physical core count the sample
\* completes with physical_cores = 0, and every other field of the snapshot
\* is what it would be had the count been reported: at startup, for every
\* pair of readings, and right after every Tick handled while monitoring.
C18_MissingCoreCountIsZero ==
    /\ last = "new" =>
           \A r0 \in Readings, r1 \in Readings :
               /\ new(WithCoreCount(r0, None), r1)
                    = [new(WithCoreCount(r0, Some(2)), r1)
                          EXCEPT !.metrics.physical_cores = 0]
               /\ main_new(WithCoreCount(r0, None), r1)
                    = [main_new(WithCoreCount(r0, Some(2)), r1)
                          EXCEPT !.metrics.physical_cores = 0]
    /\ (last = "Tick" /\ is_monitoring /\ os.physical_core_count = None) =>
           LET known == WithCoreCount(os, Some(2))
           IN  metrics =
                   [ (IF revision = "modular"
                      THEN sample(metrics, system, disks, networks, known)
                      ELSE main_sample(metrics, system, disks, networks,
                                       known))
                     EXCEPT !.physical_cores = 0 ]

\* the count was known at startup and is missing at the Tick just sampled:
\* physical_cores went to 0 and the rest of the snapshot is the new sample
C18_Witness ==
    /\ last = "Tick" /\ is_monitoring /\ ~panicked
    /\ os.physical_core_count = None /\ metrics.physical_cores = 0
    /\ metrics.system_base_info.host_name = "host"
    /\ metrics.no_of_processes = Len(os.processes)
    /\ metrics.memory_usage = << os.used_memory, os.total_memory >>

\* C19: the process sleeps for the CPU warm-up once, in new(), before any
\* message is handled; no Tick, LogToFile or user event sleeps again: the
\* count of sleeps is 1 in the state new() returns and in every state after.
C19_WarmUpOnlyAtStartup ==
    sleeps = 1

\* Ticks have sampled, a log tick has written and the user has typed an
\* interval, and the one sleep of new() is still the only one
C19_Witness ==
    /\ revision = "modular" /\ last = "Tick" /\ is_monitoring /\ ~panicked
    /\ system_log # <<>> /\ interval_in_secs # <<>>
    /\ sleeps = 1

\* x >= y on f64 values (false when either is NaN)
GreaterOrEqual(x, y) ==
    partial_cmp(x, y) \in { Some("Greater"), Some("Equal") }

\* where the process with this pid stands in a list
PositionOf(pid, list) == CHOOSE i \in 1 .. Len(list) : list[i].id = pid

\* C20: right after a Tick handled while monitoring, the process list is
\* a permutation of the processes sampled, in non-increasing order of
\* memory percent, and processes with equal memory percent stand in the
\* order in which the provider enumerated them.
C20_ProcessesSortedStable ==
    (revision = "modular" /\ last = "Tick" /\ is_monitoring) =>
        LET sampled == processes_tick(system)
            listed == metrics.processes
            Places == 1 .. Len(listed)
        IN  /\ Len(listed) = Len(sampled)
            /\ \A i \in 1 .. Len(sampled) :
                   \E j \in Places : listed[j] = sampled[i]
            /\ \A i \in Places, j \in Places :
                   i < j => GreaterOrEqual(listed[i].memory_usage_percent,
                                           listed[j].memory_usage_percent)
            /\ \A i \in Places, j \in Places :
                   (/\ i < j
                    /\ partial_cmp(sampled[i].memory_usage_percent,
                                   sampled[j].memory_usage_percent)
                           = Some("Equal")) =>
                       PositionOf(sampled[i].id, listed)
                           < PositionOf(sampled[j].id, listed)

\* the set of the values f takes on a sequence
Range(f) == { f[i] : i \in DOMAIN f }

\* C21: from the start (is_monitoring false), after ToggleMonitoring and n
\* Ticks and no other event, n samples have been taken, one by each Tick;
\* each is drawn from the reading of its Tick (CPU, memory, the processes)
\* and counts the processes it lists; the snapshot the monitor holds is the
\* one of the last Tick, so after the n-th Tick no_of_processes is the
\* number of processes of the n-th snapshot.
C21_EachTickTakesItsSample ==
    scenario.status = "running" =>
        /\ Len(scenario.samples) = scenario.ticks
        /\ scenario.ticks > 0 =>
               metrics = scenario.samples[scenario.ticks].snapshot
        /\ \A i \in 1 .. Len(scenario.samples) :
               LET taken == scenario.samples[i].snapshot
                   from == scenario.samples[i].reading
               IN  /\ taken.no_of_processes = Len(taken.processes)
                   /\ Len(taken.processes) = Len(from.processes)
                   /\ { p.id : p \in Range(taken.processes) }
                          = { p.pid : p \in Range(from.processes) }
                   /\ taken.cpu_usage = from.global_cpu_usage
                   /\ taken.memory_usage
                          = << from.used_memory, from.total_memory >>

\* three Ticks were handled after ToggleMonitoring, the provider reporting
\* another number of processes at each
C21_Witness ==
    /\ scenario.status = "running" /\ scenario.ticks = 3 /\ ~panicked
    /\ is_monitoring
    /\ metrics.no_of_processes
           # scenario.samples[2].snapshot.no_of_processes
    /\ scenario.samples[2].snapshot.no_of_processes
           # scenario.samples[1].snapshot.no_of_processes

\* C22: right after a Tick handled while monitoring, every process of the
\* snapshot carries the CPU usage the provider reported for it at that
\* refresh, as it is: not divided by the warm-up delta, not zeroed, not
\* scaled by the global CPU usage.
C22_ProcessCpuPassedThrough ==
    (last = "Tick" /\ is_monitoring) =>
        /\ Len(metrics.processes) = Len(os.processes)
        /\ \A i \in 1 .. Len(metrics.processes) :
               LET listed == metrics.processes[i]
               IN  \E j \in 1 .. Len(os.processes) :
                       /\ os.processes[j].pid = listed.id
                       /\ listed.cpu_usage_percent
                              = FromF32(os.processes[j].cpu_usage)

\* a Tick of main.rs has sampled at a global CPU usage above zero; app is
\* listed at the 10 % the provider reports for it
C22_Witness ==
    /\ revision = "standalone" /\ last = "Tick" /\ is_monitoring /\ ~panicked
    /\ metrics.cpu_usage > 0
    /\ \E i \in 1 .. Len(metrics.processes) :
           /\ metrics.processes[i].name = "app"
           /\ metrics.processes[i].cpu_usage_percent = Num(1000)

\* the fields of the snapshot m that a sample draws from the provider's
\* table are those of the one reading r
OneSample(m, r) ==
    /\ m.cpu_usage = r.global_cpu_usage
    /\ m.memory_usage = << r.used_memory, r.total_memory >>
    /\ m.swap_memory_usage = << r.used_swap, r.total_swap >>
    /\ m.no_of_processes = Len(r.processes)
    /\ m.physical_cores = unwrap_or(r.physical_core_count, 0)

\* C23: update handles one message at a time and to its end: a step takes
\* at most one message off the queue; the snapshot changes only in the step
\* of a Tick, and then to one whole sample of one reading; and a record
\* appended to the log is the serialization of the whole snapshot the
\* monitor holds in that step (the one LogToFile found in system_monitor.rs,
\* the one the Tick just took in main.rs), never of fields of two samples.
C23_RecordIsOneWholeSnapshot ==
    [][ /\ Len(queue') >= Len(queue) - 1
        /\ metrics' # metrics =>
               Handled("Tick") /\ OneSample(metrics', os')
        /\ system_log' # system_log =>
               LET line == system_log'[Len(system_log')]
               IN  /\ revision = "modular" =>
                          /\ Handled("LogToFile")
                          /\ metrics' = metrics
                          /\ \E now \in Instants :
                                 line = serialize(metrics, now)
                   /\ revision = "standalone" =>
                          /\ Handled("Tick")
                          /\ line = main_serialize(metrics') ]_vars

\* two log ticks wrote around a Tick that changed the snapshot, and the
\* next Tick is already queued
C23_Witness ==
    /\ revision = "modular" /\ last = "LogToFile" /\ ~panicked
    /\ Len(system_log) = 2
    /\ system_log[1].cpu_usage_percent # system_log[2].cpu_usage_percent
    /\ system_log[2].cpu_usage_percent = f32_to_string(metrics.cpu_usage)
    /\ queue = << "Tick" >>

\* C24: the step that handles LogToFile leaves the monitor as it found it,
\* whether the logger wrote its record or failed: the snapshot, the provider
\* caches, is_monitoring, save_to_file, the visibility flags and the
\* interval text are the same after it; the log is all it can change.
C24_LogTickReadsOnly ==
    [][ Handled("LogToFile") =>
            /\ metrics' = metrics
            /\ system' = system
            /\ disks' = disks
            /\ networks' = networks
            /\ is_monitoring' = is_monitoring
            /\ save_to_file' = save_to_file
            /\ show' = show
            /\ interval_in_secs' = interval_in_secs
            /\ (system_log' = system_log
                \/ \E now \in Instants :
                       system_log' = Append(system_log,
                                            serialize(metrics', now))) ]_vars

\* a log tick wrote its record and the next one failed to, with monitoring
\* and logging on
C24_Witness ==
    /\ last = "LogToFile" /\ panicked /\ system_log # <<>>
    /\ is_monitoring /\ save_to_file /\ interval_in_secs # <<>>
    /\ metrics.cpu_usage > 0

\* the keys a log record has according to the log file format
RecordKeys ==
    { "timestamp", "cpu_usage_percent", "memory_usage_bytes",
      "swap_memory_usage_bytes", "disk_usage_bytes", "network_sent_bytes",
      "network_received_bytes" }

\* C25: every line of the log is an object with exactly the keys timestamp,
\* cpu_usage_percent, memory_usage_bytes, swap_memory_usage_bytes,
\* disk_usage_bytes, network_sent_bytes and network_received_bytes, the
\* three *_usage_bytes values being pairs [used, total].
C25_RecordHasTheSevenFields ==
    \A i \in 1 .. Len(system_log) :
        LET line == system_log[i]
        IN  /\ DOMAIN line = RecordKeys
            /\ Len(line.memory_usage_bytes) = 2
            /\ Len(line.swap_memory_usage_bytes) = 2
            /\ Len(line.disk_usage_bytes) = 2

\* C26: ToggleSaveToFile(value) can always be handled and sets save_to_file
\* to value; the step that changes save_to_file leaves the snapshot, the
\* provider caches, is_monitoring, the interval text, the visibility flags
\* and the log unchanged; and handled with the value the flag already has
\* (the same value a second time) it changes nothing of the monitor, its
\* subscription included.
C26_ToggleLoggingSetsFlagOnly ==
    /\ []((revision = "modular" /\ ~panicked) =>
            \A value \in BOOLEAN :
                ENABLED (ToggleSaveToFile(value) /\ save_to_file' = value))
    /\ [][ save_to_file' # save_to_file =>
               /\ metrics' = metrics
               /\ system' = system
               /\ disks' = disks
               /\ networks' = networks
               /\ is_monitoring' = is_monitoring
               /\ interval_in_secs' = interval_in_secs
               /\ show' = show
               /\ system_log' = system_log
               /\ queue' = queue
               /\ ~panicked' ]_vars
    /\ [][ \A value \in BOOLEAN :
               (ToggleSaveToFile(value) /\ save_to_file = value) =>
                   UNCHANGED << metrics, system, disks, networks,
                                is_monitoring, save_to_file,
                                interval_in_secs, show, system_log, queue,
                                active, panicked >> ]_vars

\* logging was switched on and off again while monitoring with an interval
\* typed in, a log tick still queued and a line in the log
C26_Witness ==
    /\ ~save_to_file /\ last = "input" /\ is_monitoring
    /\ interval_in_secs = << "2" >> /\ active.log = None
    /\ queue = << "LogToFile" >> /\ system_log # <<>>

\* C27: the number of records in the log changes only in the step that
\* handles LogToFile; handling a display Tick never appends a record,
\* monitoring on or off, logging enabled or not.
C27_OnlyLogTickPersists ==
    [][ Len(system_log') # Len(system_log) => Handled("LogToFile") ]_vars

\* C28: in every state, the one new() returns included, no_of_processes is
\* the number of entries of the snapshot's process list, also when
\* processes fall below the 0.01 % threshold of the memory filter.
C28_ProcessCountIsListLength ==
    metrics.no_of_processes = Len(metrics.processes)

\* C29: in system_monitor.rs no record is in the log, and the logger has not
\* failed on one either, unless is_monitoring and save_to_file were true
\* and the interval text non-empty at one and the same time earlier in the
\* run; the run starts with monitoring off, logging off and the text empty,
\* so ToggleMonitoring, ToggleSaveToFile(true) and an IntervalChanged with a
\* non-empty text all come before the first record.
C29_NoRecordBeforeArmed ==
    (revision = "modular" /\ (system_log # <<>> \/ panicked)) =>
        armed = "once"

\* a record was written by a log tick that was still queued when logging
\* and monitoring were switched off and the interval text was cleared
C29_Witness ==
    /\ revision = "modular" /\ last = "LogToFile" /\ system_log # <<>>
    /\ ~is_monitoring /\ ~save_to_file /\ interval_in_secs = <<>>
    /\ armed = "once"

\* C30: in every state the runtime holds what subscription() returns for
\* the monitor as it is now: at most one display timer, of period 1, and at
\* most one log timer, whose period is the one the current interval text
\* gives; a log timer of another period, subscribed before the text was
\* changed, is no longer held, so that the log ticks produced after the
\* change all come from the timer of the new period.
C30_OneTimerOfEachKind ==
    /\ active = IF revision = "modular"
                THEN subscription(is_monitoring, save_to_file,
                                  interval_in_secs)
                ELSE main_subscription(is_monitoring)
    /\ active.tick \in { None, Some(TickSecs) }
    /\ active.log # None =>
           LET parsed == parse_u64(interval_in_secs)
           IN  active.log = IF parsed # None THEN parsed
                            ELSE Some(DefaultLogSecs)

\* the interval text was changed to "0" while the log timer ran with a
\* positive period: a log tick of the old timer is still queued, and the
\* timer held is the one of period 0
C30_Witness ==
    /\ revision = "modular" /\ last = "input" /\ interval_in_secs = << "0" >>
    /\ active.log = Some(0) /\ active.tick = Some(TickSecs)
    /\ queue = << "LogToFile" >>

\* monitoring and logging are on and the interval text is a positive number
BothTimersWanted ==
    /\ is_monitoring /\ save_to_file
    /\ parse_u64(interval_in_secs) # None
    /\ parse_u64(interval_in_secs)[1] > 0

\* the log of the model has no room for another line
LogFull == Len(system_log) = MaxLog

\* C31: under fair scheduling, whenever monitoring, logging and a positive
\* interval hold, either one of them is given up later or a log tick is
\* handled and appends its record (while the log has room for it); and if
\* they hold from some point on for ever, Ticks are handled again and again:
\* neither timer keeps the other from being served.
C31_BothTicksAreServed ==
    /\ \A n \in 0 .. MaxLog - 1 :
           (BothTimersWanted /\ Len(system_log) = n)
               ~> (~BothTimersWanted \/ Len(system_log) > n)
    /\ \/ []<>(~BothTimersWanted)
       \/ []<>LogFull
       \/ []<><<Tick>>_vars

\* C32: the disk arithmetic never fails in new(), and in every snapshot the
\* used bytes of the disks are at most their total bytes, whatever disk list
\* the provider returned.
C32_DiskUsedWithinTotal ==
    /\ ~(panicked /\ last = "new")
    /\ ~panicked => metrics.disk_usage[1] <= metrics.disk_usage[2]

\* no interface of n1 counts less than it does in n0
totals_not_decreased(n0, n1) ==
    /\ Len(n1) = Len(n0)
    /\ \A i \in 1 .. Len(n0) :
           /\ n1[i].total_transmitted >= n0[i].total_transmitted
           /\ n1[i].total_received >= n0[i].total_received

\* C33: a Tick handled while monitoring leaves network_sent and
\* network_received at the sums, over the interfaces, of the totals the
\* provider reports at that sample, lower ones after a reset included; so
\* they do not decrease from one snapshot to the next while the provider's
\* totals do not.
C33_NetworkCountersFollowProvider ==
    [][(Handled("Tick") /\ revision = "modular" /\ is_monitoring) =>
           /\ metrics'.network_sent = network_sent_of(os'.networks)
           /\ metrics'.network_received = network_received_of(os'.networks)
           /\ totals_not_decreased(os.networks, os'.networks) =>
                  /\ metrics'.network_sent >= metrics.network_sent
                  /\ metrics'.network_received >= metrics.network_received
      ]_vars

=============================================================================
